---- MODULE Spec2Model ----
(***************************************************************************)
(* Model of the imfconv builder (src/src/imfconv.rs): Imfconv::new,        *)
(* set_image_format, set_color_profile and convert, together with the      *)
(* collaborators it calls (read_image, ImfconvColorProfile::edit,          *)
(* ImfconvHandler::exec), whose code lives in the modules `reader` and     *)
(* `handler` and is modelled here from their documented contracts.         *)
(***************************************************************************)
EXTENDS Integers, Sequences, FiniteSets, TLC

VARIABLES self, ret, trace, fs, writes, hist

vars == <<self, ret, trace, fs, writes, hist>>

\* Longest sequence of library calls explored in one run.
MaxCalls == 5

----------------------------------------------------------------------------
\* Values

ImageType == {"JPEG", "PNG", "TIFF"}

ColorProfile == {"RGB", "GRAYSCALE"}

Handlers == {"JpegHandler", "PngHandler", "TiffHandler"}

Strategies == {"RgbColor", "Grayscale"}

SourcePaths == {"red.png", "pair.png", "truncated.png", "empty.png", "missing.png"}

DestPaths == {"out.img", "nodir/out.img"}

NoError == [kind |-> "none", variant |-> "none"]

ColorError(v) == [kind |-> "ColorError", variant |-> v]

EncodeError(v) == [kind |-> "EncodeError", variant |-> v]

DecodeError(v) == [kind |-> "DecodeError", variant |-> v]

\* The value standing for "no Imfconv value exists".
NoPipeline ==
    [image |-> <<>>, w |-> 0, h |-> 0, format |-> "none", color |-> "none",
     dest_path |-> "none"]

NoFile == [format |-> "none", w |-> 0, h |-> 0, pixels |-> <<>>]

Ok(v) == [ok |-> TRUE, val |-> v, err |-> NoError]

Err(e, v) == [ok |-> FALSE, val |-> v, err |-> e]

----------------------------------------------------------------------------
\* Collaborators

\* Bytes per pixel of the raw layout (RGB-8).
Stride == 3

\* reader::read_image: (width, height, pixel bytes) or a decode failure.
read_image(path) ==
    CASE path = "red.png" -> Ok([w |-> 1, h |-> 1, image |-> <<255, 0, 0>>])
      [] path = "pair.png" ->
            Ok([w |-> 2, h |-> 1, image |-> <<255, 0, 0, 0, 255, 0>>])
      [] path = "truncated.png" -> Ok([w |-> 1, h |-> 1, image |-> <<128>>])
      [] path = "empty.png" -> Ok([w |-> 0, h |-> 0, image |-> <<>>])
      [] OTHER ->
            Err(DecodeError("Unreadable"), [w |-> 0, h |-> 0, image |-> <<>>])

Luma(r, g, b) == (299 * r + 587 * g + 114 * b) \div 1000

\* Grayscale of an RGB-8 buffer, luminance re-expanded into three channels.
GrayscaleOf(image) ==
    [i \in 1..Len(image) |->
        LET base == 3 * ((i - 1) \div 3)
        IN  Luma(image[base + 1], image[base + 2], image[base + 3])]

\* ImfconvColorProfile::edit of the two strategies.
edit(color, w, h, image) ==
    IF color = "RgbColor" THEN Ok(image)
    ELSE IF Len(image) # w * h * Stride
         THEN Err(ColorError("InvalidBufferSize"), <<>>)
         ELSE Ok(GrayscaleOf(image))

DirExists(dest) == dest # "nodir/out.img"

\* ImfconvHandler::exec of the three handlers: the outcome of the encode.
exec(format, w, h, buffer, dest) ==
    IF w = 0 \/ h = 0 THEN Err(EncodeError("UnsupportedDimensions"), <<>>)
    ELSE IF Len(buffer) # w * h * Stride
         THEN Err(EncodeError("CodecFailure"), <<>>)
         ELSE IF ~DirExists(dest) THEN Err(EncodeError("IoFailure"), <<>>)
              ELSE Ok(<<>>)

\* The file a successful exec leaves at the destination.
Encoded(format, w, h, buffer) ==
    [format |-> format, w |-> w, h |-> h, pixels |-> buffer]

----------------------------------------------------------------------------
\* Imfconv

new_default_on_error(source_image_filepath, destination_filepath) ==
    LET r == read_image(source_image_filepath)
    IN  Ok([image |-> r.val.image, w |-> r.val.w, h |-> r.val.h,
            format |-> "PngHandler", color |-> "RgbColor",
            dest_path |-> destination_filepath])

new_jpeg_default(source_image_filepath, destination_filepath) ==
    LET r == read_image(source_image_filepath)
    IN  IF ~r.ok THEN Err(r.err, NoPipeline)
        ELSE Ok([image |-> r.val.image, w |-> r.val.w, h |-> r.val.h,
                 format |-> "JpegHandler", color |-> "RgbColor",
                 dest_path |-> destination_filepath])

new(source_image_filepath, destination_filepath) ==
    LET r == read_image(source_image_filepath)
    IN  IF ~r.ok THEN Err(r.err, NoPipeline)
        ELSE Ok([image |-> r.val.image, w |-> r.val.w, h |-> r.val.h,
                 format |-> "PngHandler", color |-> "RgbColor",
                 dest_path |-> destination_filepath])

HandlerOf_tiff_as_png(image_type) ==
    CASE image_type = "JPEG" -> "JpegHandler"
      [] image_type = "PNG" -> "PngHandler"
      [] image_type = "TIFF" -> "PngHandler"

HandlerOf(image_type) ==
    CASE image_type = "JPEG" -> "JpegHandler"
      [] image_type = "PNG" -> "PngHandler"
      [] image_type = "TIFF" -> "TiffHandler"

StrategyOf(color_profile) ==
    CASE color_profile = "RGB" -> "RgbColor"
      [] color_profile = "GRAYSCALE" -> "Grayscale"

set_image_format_swapped(p, image_type) ==
    [image |-> p.image, w |-> p.h, h |-> p.w, format |-> HandlerOf(image_type),
     color |-> p.color, dest_path |-> p.dest_path]

set_image_format(p, image_type) ==
    [image |-> p.image, w |-> p.w, h |-> p.h, format |-> HandlerOf(image_type),
     color |-> p.color, dest_path |-> p.dest_path]

set_color_profile_png(p, color_profile) ==
    Ok([image |-> p.image, w |-> p.w, h |-> p.h, format |-> "PngHandler",
        color |-> StrategyOf(color_profile), dest_path |-> p.dest_path])

set_color_profile(p, color_profile) ==
    Ok([image |-> p.image, w |-> p.w, h |-> p.h, format |-> p.format,
        color |-> StrategyOf(color_profile), dest_path |-> p.dest_path])

\* One collaborator call made inside convert, with its arguments and result.
EditCall(p, r) ==
    [fn |-> "edit", impl |-> p.color, w |-> p.w, h |-> p.h, buffer |-> p.image,
     dest_path |-> "none", ok |-> r.ok, out |-> r.val, err |-> r.err]

ExecCall(p, buffer, r) ==
    [fn |-> "exec", impl |-> p.format, w |-> p.w, h |-> p.h, buffer |-> buffer,
     dest_path |-> p.dest_path, ok |-> r.ok, out |-> <<>>, err |-> r.err]

\* convert variants used to test the properties below.
convert_stored_buffer(p) ==
    LET e == edit(p.color, p.w, p.h, p.image)
    IN  IF ~e.ok
        THEN [result |-> Err(e.err, <<>>), calls |-> <<EditCall(p, e)>>,
              self |-> p]
        ELSE LET x == exec(p.format, p.w, p.h, p.image, p.dest_path)
             IN  [result |-> IF x.ok THEN Ok(<<>>) ELSE Err(x.err, <<>>),
                  calls |-> <<EditCall(p, e), ExecCall(p, p.image, x)>>,
                  self |-> p]

convert_swallow(p) ==
    LET e == edit(p.color, p.w, p.h, p.image)
    IN  IF ~e.ok
        THEN [result |-> Err(e.err, <<>>), calls |-> <<EditCall(p, e)>>,
              self |-> p]
        ELSE LET image_with_profile == e.val
                 x == exec(p.format, p.w, p.h, image_with_profile, p.dest_path)
             IN  [result |-> Ok(<<>>),
                  calls |-> <<EditCall(p, e), ExecCall(p, image_with_profile, x)>>,
                  self |-> p]

convert_consume(p) ==
    LET e == edit(p.color, p.w, p.h, p.image)
    IN  IF ~e.ok
        THEN [result |-> Err(e.err, <<>>), calls |-> <<EditCall(p, e)>>,
              self |-> NoPipeline]
        ELSE LET image_with_profile == e.val
                 x == exec(p.format, p.w, p.h, image_with_profile, p.dest_path)
             IN  [result |-> IF x.ok THEN Ok(<<>>) ELSE Err(x.err, <<>>),
                  calls |-> <<EditCall(p, e), ExecCall(p, image_with_profile, x)>>,
                  self |-> NoPipeline]

convert_fallthrough(p) ==
    LET e == edit(p.color, p.w, p.h, p.image)
        image_with_profile == IF e.ok THEN e.val ELSE p.image
        x == exec(p.format, p.w, p.h, image_with_profile, p.dest_path)
    IN  [result |-> IF x.ok THEN Ok(<<>>) ELSE Err(x.err, <<>>),
         calls |-> <<EditCall(p, e), ExecCall(p, image_with_profile, x)>>,
         self |-> p]

convert_store(p) ==
    LET e == edit(p.color, p.w, p.h, p.image)
    IN  IF ~e.ok
        THEN [result |-> Err(e.err, <<>>), calls |-> <<EditCall(p, e)>>,
              self |-> p]
        ELSE LET image_with_profile == e.val
                 x == exec(p.format, p.w, p.h, image_with_profile, p.dest_path)
             IN  [result |-> IF x.ok THEN Ok(<<>>) ELSE Err(x.err, <<>>),
                  calls |-> <<EditCall(p, e), ExecCall(p, image_with_profile, x)>>,
                  self |-> [p EXCEPT !.image = image_with_profile]]

\* convert(&self): its result, the collaborator calls it made in order, and
\* the value of *self when it returns.
convert(p) ==
    LET e == edit(p.color, p.w, p.h, p.image)
    IN  IF ~e.ok
        THEN [result |-> Err(e.err, <<>>), calls |-> <<EditCall(p, e)>>,
              self |-> p]
        ELSE LET image_with_profile == e.val
                 x == exec(p.format, p.w, p.h, image_with_profile, p.dest_path)
             IN  [result |-> IF x.ok THEN Ok(<<>>) ELSE Err(x.err, <<>>),
                  calls |-> <<EditCall(p, e), ExecCall(p, image_with_profile, x)>>,
                  self |-> p]

----------------------------------------------------------------------------
\* The caller's steps

Call(op, arg) == [op |-> op, arg |-> arg]

Returned(op, r) == [op |-> op, ok |-> r.ok, err |-> r.err]

\* The destination after the exec calls of one convert: each successful exec
\* creates or overwrites the file at its dest_path.
RECURSIVE WriteAll(_, _)
WriteAll(files, calls) ==
    IF calls = <<>> THEN files
    ELSE LET c == Head(calls)
             next == IF c.fn = "exec" /\ c.ok
                     THEN [files EXCEPT ![c.dest_path] =
                              Encoded(c.impl, c.w, c.h, c.buffer)]
                     ELSE files
         IN  WriteAll(next, Tail(calls))

WriteCount(calls) ==
    Cardinality({i \in 1..Len(calls) : calls[i].fn = "exec" /\ calls[i].ok})

Init ==
    /\ self = NoPipeline
    /\ ret = [op |-> "none", ok |-> TRUE, err |-> NoError]
    /\ trace = <<>>
    /\ fs = [d \in DestPaths |-> NoFile]
    /\ writes = 0
    /\ hist = <<>>

New(src, dest) ==
    /\ hist = <<>>
    /\ LET r == new(src, dest)
       IN  /\ self' = r.val
           /\ ret' = Returned("new", r)
    /\ hist' = Append(hist, Call("new", src))
    /\ UNCHANGED <<trace, fs, writes>>

SetImageFormat(image_type) ==
    /\ self # NoPipeline
    /\ Len(hist) < MaxCalls
    /\ self' = set_image_format(self, image_type)
    /\ ret' = [op |-> "set_image_format", ok |-> TRUE, err |-> NoError]
    /\ hist' = Append(hist, Call("set_image_format", image_type))
    /\ UNCHANGED <<trace, fs, writes>>

SetColorProfile(color_profile) ==
    /\ self # NoPipeline
    /\ Len(hist) < MaxCalls
    /\ LET r == set_color_profile(self, color_profile)
       IN  /\ self' = r.val
           /\ ret' = Returned("set_color_profile", r)
    /\ hist' = Append(hist, Call("set_color_profile", color_profile))
    /\ UNCHANGED <<trace, fs, writes>>

Convert ==
    /\ self # NoPipeline
    /\ Len(hist) < MaxCalls
    /\ LET c == convert(self)
       IN  /\ self' = c.self
           /\ ret' = Returned("convert", c.result)
           /\ trace' = c.calls
           /\ fs' = WriteAll(fs, c.calls)
           /\ writes' = writes + WriteCount(c.calls)
    /\ hist' = Append(hist, Call("convert", "none"))

Next ==
    \/ \E src \in SourcePaths, dest \in DestPaths : New(src, dest)
    \/ \E image_type \in ImageType : SetImageFormat(image_type)
    \/ \E color_profile \in ColorProfile : SetColorProfile(color_profile)
    \/ Convert

Spec == Init /\ [][Next]_vars

----------------------------------------------------------------------------
\* Properties

\* The step just taken is a call of op.
Step(op) == Len(hist') = Len(hist) + 1 /\ hist'[Len(hist')].op = op

LastCall == hist[Len(hist)]

CallsOf(op) == {i \in 1..Len(hist) : hist[i].op = op}

Latest(S) == CHOOSE i \in S : \A j \in S : j <= i

ExecsIn(calls) == {i \in 1..Len(calls) : calls[i].fn = "exec"}

DecodeFailed == hist # <<>> /\ ~read_image(hist[1].arg).ok

\* C1: every convert() calls edit first, on the stored buffer with the active
\* strategy; exec is called only after edit returned Ok, and then with the
\* pipeline's width, height and destination path, the active handler and
\* exactly the buffer edit returned.
C1_EditThenExec ==
    [][Step("convert") =>
        LET e == edit(self.color, self.w, self.h, self.image)
        IN  /\ Len(trace') >= 1
            /\ trace'[1] = EditCall(self, e)
            /\ \A i \in ExecsIn(trace') :
                  /\ i = 2
                  /\ trace'[1].ok
                  /\ trace'[i].buffer = trace'[1].out
                  /\ trace'[i].w = self.w
                  /\ trace'[i].h = self.h
                  /\ trace'[i].dest_path = self.dest_path
                  /\ trace'[i].impl = self.format]_vars

\* C1 witness: a convert() whose exec received a buffer that differs from the
\* stored one.
C1_Witness ==
    /\ ret.op = "convert"
    /\ Len(trace) = 2
    /\ trace[2].fn = "exec"
    /\ trace[2].buffer = trace[1].out
    /\ trace[2].buffer # self.image

\* C2: convert() writes the destination exactly once and only when both stages
\* succeed: an edit error is returned without any exec call or write, an exec
\* error is returned without a write, and Ok is returned exactly when both
\* edit and exec returned Ok.
C2_WriteOnlyOnSuccess ==
    [][Step("convert") =>
        LET e == edit(self.color, self.w, self.h, self.image)
            x == exec(self.format, self.w, self.h, e.val, self.dest_path)
        IN  /\ ~e.ok =>
                  /\ ~ret'.ok /\ ret'.err = e.err
                  /\ ExecsIn(trace') = {}
                  /\ fs' = fs /\ writes' = writes
            /\ (e.ok /\ ~x.ok) =>
                  /\ ~ret'.ok /\ ret'.err = x.err
                  /\ fs' = fs /\ writes' = writes
            /\ ret'.ok <=> (e.ok /\ x.ok)
            /\ ret'.ok =>
                  /\ Cardinality(ExecsIn(trace')) = 1
                  /\ writes' = writes + 1
                  /\ fs' = [fs EXCEPT ![self.dest_path] =
                               Encoded(self.format, self.w, self.h, e.val)]]_vars

\* C2 witness: a convert() that failed in edit and left the destination
\* untouched.
C2_Witness ==
    /\ ret.op = "convert"
    /\ ~ret.ok
    /\ Len(trace) = 1
    /\ ~trace[1].ok
    /\ writes = 0
    /\ fs[self.dest_path] = NoFile

\* C3: when read_image fails, new() returns that failure, no pipeline value
\* exists, the destination is untouched and no further step is possible.
C3_NoPipelineAfterDecodeFailure ==
    [][/\ DecodeFailed => UNCHANGED vars
       /\ DecodeFailed' =>
             /\ self' = NoPipeline
             /\ ret' = [op |-> "new", ok |-> FALSE,
                        err |-> read_image(hist'[1].arg).err]
             /\ trace' = <<>>
             /\ writes' = 0
             /\ \A d \in DestPaths : fs'[d] = NoFile]_vars

\* C3 witness: new() was called on an undecodable source.
C3_Witness ==
    /\ DecodeFailed
    /\ ret.op = "new"
    /\ ret.err.kind = "DecodeError"
    /\ self = NoPipeline

\* C4: every pipeline has exactly one handler and one strategy; the handler is
\* PngHandler while set_image_format was never called and the strategy is
\* RgbColor while set_color_profile was never called.
C4_OneStrategyOneHandler ==
    /\ (hist # <<>> /\ ~DecodeFailed) => self # NoPipeline
    /\ self # NoPipeline =>
          /\ self.format \in Handlers
          /\ self.color \in Strategies
          /\ CallsOf("set_image_format") = {} => self.format = "PngHandler"
          /\ CallsOf("set_color_profile") = {} => self.color = "RgbColor"

\* C4 witness: a pipeline whose color profile was set but whose format was not.
C4_Witness ==
    /\ self # NoPipeline
    /\ CallsOf("set_image_format") = {}
    /\ CallsOf("set_color_profile") # {}
    /\ self.format = "PngHandler"
    /\ self.color = "Grayscale"

\* C5: repeating a set_image_format or set_color_profile call with the same
\* argument yields the same pipeline as the first call did.
C5_IdempotentConfiguration ==
    [][(/\ hist # <<>>
        /\ Len(hist') = Len(hist) + 1
        /\ hist'[Len(hist')] = LastCall
        /\ LastCall.op \in {"set_image_format", "set_color_profile"})
       => (self' = self /\ ret'.ok)]_vars

\* C5 witness: the same set_image_format call was made twice in a row on a
\* pipeline that a color profile call had already changed.
C5_Witness ==
    /\ Len(hist) >= 4
    /\ LastCall.op = "set_image_format"
    /\ hist[Len(hist) - 1] = LastCall
    /\ self.format = HandlerOf(LastCall.arg)
    /\ self.color = "Grayscale"

\* C6 as stated: once convert() has returned no further step is taken and the
\* destination is written at most once.
C6_TerminalAfterConvert ==
    [][/\ ret.op = "convert" => UNCHANGED vars
       /\ writes' <= 1]_vars

\* C6 amended: convert() borrows the pipeline; after it returns the pipeline
\* still exists, every set and convert call remains possible, and each
\* convert() call writes the destination at most once.
C6_PipelineUsableAfterConvert ==
    /\ writes <= Cardinality(CallsOf("convert"))
    /\ ret.op = "convert" =>
          /\ self # NoPipeline
          /\ Len(hist) < MaxCalls =>
                /\ ENABLED Convert
                /\ \A t \in ImageType : ENABLED SetImageFormat(t)
                /\ \A c \in ColorProfile : ENABLED SetColorProfile(c)

\* C6 witness: a second convert() on the same pipeline wrote the destination
\* again.
C6_Witness ==
    /\ ret.op = "convert"
    /\ Cardinality(CallsOf("convert")) = 2
    /\ writes = 2

\* C7: a failed convert() returns the first failure of the two stages
\* unchanged, and its kind tells the stage: ColorError exactly when edit
\* failed, EncodeError exactly when edit succeeded and exec failed.
C7_ErrorTellsStage ==
    [][(Step("convert") /\ ~ret'.ok) =>
        LET e == edit(self.color, self.w, self.h, self.image)
            x == exec(self.format, self.w, self.h, e.val, self.dest_path)
        IN  /\ ~e.ok => ret'.err = e.err
            /\ e.ok => (~x.ok /\ ret'.err = x.err)
            /\ ret'.err.kind = "ColorError" <=> ~e.ok
            /\ ret'.err.kind = "EncodeError" <=> e.ok]_vars

\* C7 witness: convert() failed in exec after a successful edit.
C7_Witness ==
    /\ ret.op = "convert"
    /\ ~ret.ok
    /\ ret.err.kind = "EncodeError"
    /\ Len(trace) = 2
    /\ trace[1].ok
    /\ ~trace[2].ok

\* C8: convert() leaves the pipeline's buffer, width, height, handler,
\* strategy and destination path as they were, whatever it returns.
C8_ConvertLeavesPipeline ==
    [][Step("convert") => self' = self]_vars

\* C8 witness: a failed convert() whose edit produced a buffer different from
\* the stored one.
C8_Witness ==
    /\ ret.op = "convert"
    /\ ~ret.ok
    /\ Len(trace) = 2
    /\ trace[1].out # trace[1].buffer
    /\ self.image = trace[1].buffer

\* C9: set_image_format changes at most the handler, set_color_profile returns
\* Ok and changes at most the strategy, and neither calls edit or exec or
\* writes the destination.
C9_SetChangesOwnAxis ==
    [][/\ Step("set_image_format") =>
             /\ self' = [self EXCEPT !.format = self'.format]
             /\ UNCHANGED <<trace, fs, writes>>
       /\ Step("set_color_profile") =>
             /\ ret'.ok
             /\ self' = [self EXCEPT !.color = self'.color]
             /\ UNCHANGED <<trace, fs, writes>>]_vars

\* C9 witness: set_color_profile was called on a pipeline with a non-default
\* handler.
C9_Witness ==
    /\ hist # <<>>
    /\ LastCall.op = "set_color_profile"
    /\ self.color = "Grayscale"
    /\ self.format = "TiffHandler"

ExpectedHandler ==
    LET S == CallsOf("set_image_format")
        a == IF S = {} THEN "PNG" ELSE hist[Latest(S)].arg
    IN  CASE a = "JPEG" -> "JpegHandler"
          [] a = "PNG" -> "PngHandler"
          [] a = "TIFF" -> "TiffHandler"

ExpectedStrategy ==
    LET S == CallsOf("set_color_profile")
        a == IF S = {} THEN "RGB" ELSE hist[Latest(S)].arg
    IN  CASE a = "RGB" -> "RgbColor"
          [] a = "GRAYSCALE" -> "Grayscale"

\* C10: convert() invokes exec on the handler of the most recent
\* set_image_format argument (PngHandler if none) and edit on the strategy of
\* the most recent set_color_profile argument (RgbColor if none).
C10_LastSelectionWins ==
    ret.op = "convert" =>
        /\ Len(trace) >= 1
        /\ trace[1].fn = "edit"
        /\ trace[1].impl = ExpectedStrategy
        /\ \A i \in ExecsIn(trace) : trace[i].impl = ExpectedHandler

\* C10 witness: convert() ran exec after two different formats and a color
\* profile had been selected.
C10_Witness ==
    /\ ret.op = "convert"
    /\ ExecsIn(trace) # {}
    /\ CallsOf("set_color_profile") # {}
    /\ \E i, j \in CallsOf("set_image_format") :
          i < j /\ hist[i].arg # hist[j].arg /\ hist[j].arg = "TIFF"

====
